---- MODULE Spec2Model ----
(***************************************************************************)
(* Verification model of the refine admin-panel glue code:                 *)
(*   - the useOne data hook (src/src/hooks/data/useOne.ts) on top of the   *)
(*     query-caching layer it delegates to,                                *)
(*   - the Layout sidebar's menu click handler (src/unnamed/part_000),     *)
(*   - the sample authProvider and the Authenticated gate of the           *)
(*     custom-pages guide,                                                 *)
(*   - the Next.js unsaved-changes Prompt of the router-provider guide,    *)
(*   - the title-uniqueness rule of the custom-form-validation guide.      *)
(*                                                                         *)
(* The query-caching layer (react-query's useQuery) and the Authenticated  *)
(* component are not part of the sources at hand; they are modelled from   *)
(* the specification (sections 3, 4.1, 4.3, 5 and 7): one cache entry per  *)
(* query key, in-flight requests shared per key, results served from the   *)
(* cache until invalidated, observers unsubscribed on unmount.  The        *)
(* layer's own retry and stale-time policies are configuration outside     *)
(* these sources and are not modelled: a fetch is one run of the query     *)
(* function the hook hands over.                                           *)
(***************************************************************************)
EXTENDS Naturals, Sequences, FiniteSets

VARIABLES
  \* ---- data hooks / query cache ----
  mounted,    \* consumer -> whether the component using useOne is mounted
  args,       \* consumer -> the (resource, id) its query observer is subscribed
              \* with (its latest useOne call), NoArgs when it has no observer
  view,       \* consumer -> the QueryObserverResult it last rendered
  cache,      \* query key -> cache entry of the query layer
  inflight,   \* getOne calls the data provider has not settled yet
  last,       \* history: query key -> outcome of the fetch most recently
              \* started for it
  served      \* history: consumer -> whether its latest useOne call was answered
              \* from a cached result, with no provider call

VARIABLES
  \* ---- sample authProvider and the Authenticated gate ----
  storage,    \* localStorage's "username" item, None when absent
  loginResult,\* how the latest login call settled
  logoutResult,\* how the latest logout call settled
  session,    \* whether "admin" logged in with no logout since then
  gate,       \* protected page -> state of its Authenticated wrapper
  shown       \* protected page -> whether CustomPage is rendered

VARIABLES
  \* ---- Layout sidebar ----
  resources,  \* the resource registry the menu is built from
  location,   \* the path the router is at
  logouts,    \* logout calls of the click handler that have not settled
  pushed,     \* history.push("/login") calls made by the click handler
  settled     \* how the logout calls made so far settled

VARIABLES
  \* ---- Next.js Prompt ----
  when,       \* the `when` prop as of the latest render
  hasSetter,  \* whether the setWarnWhen prop is given
  prompt,     \* whether the Prompt is mounted
  handlers,   \* routeChangeStart handlers registered on router.events
  route,      \* the route the Next.js router is at
  changes,    \* route changes started so far
  lastChange  \* what the latest routeChangeStart did

VARIABLES
  \* ---- PostCreate form with the title-uniqueness rule ----
  value,      \* the value of the title field
  title,      \* the `title` state as of the latest render
  runs,       \* validator run -> what it was given, asked and returned
  started     \* validator runs started so far

queryVars == <<mounted, args, view, cache, inflight, last, served>>
authVars == <<storage, loginResult, logoutResult, session, gate, shown>>
layoutVars == <<resources, location, logouts, pushed, settled>>
promptVars == <<when, hasSetter, prompt, handlers, route, changes, lastChange>>

formVars == <<value, title, runs, started>>

vars == <<queryVars, authVars, layoutVars, promptVars, formVars>>

-----------------------------------------------------------------------------
(* Bounds *)

NumIds == 2                   \* records of "posts"; "users" has one record
NumPages == 2                 \* protected custom pages open at a time
NumResources == 2             \* longest resource registry
MaxLogouts == 3               \* clicks on the logout item
MaxChanges == 3
MaxRuns == 2               \* route changes started

Consumers == {"c1", "c2"}     \* components that use the hook
Resources == {"posts", "users"}
IdsOf(resource) == IF resource = "posts" THEN 1..NumIds ELSE {1}
Errors == {"E1", "E2"}        \* rejection reasons of the data provider

None == "none"
Client == "client"            \* a fetch started by the query client, not a hook

-----------------------------------------------------------------------------
(* useOne.ts *)

\* useOne.ts:8-9  the hook's arguments
Args(resource, id) == [resource |-> resource, id |-> id]
NoArgs == [resource |-> None, id |-> 0]
AllArgs == UNION {{Args(r, i) : i \in IdsOf(r)} : r \in Resources}

\* useOne.ts:14  `resource/getOne/${resource}`  (the id is not part of it)
QueryKey(resource, id) == <<"resource", "getOne", resource>>

KeyOf(a) == QueryKey(a.resource, a.id)
Keys == {KeyOf(a) : a \in AllArgs}

\* a query function that always asks for the first record
QueryFnFirstId(resource, id) == [resource |-> resource, id |-> 1]

\* useOne.ts:15  () => getOne(resource, id): the provider call it makes
QueryFn(resource, id) == [resource |-> resource, id |-> id]

NoFn == [resource |-> None, id |-> 0]

\* GetOneResponse of getOne(resource, id): the record asked for
Payload(fn) == [resource |-> fn.resource, id |-> fn.id]
NoData == [resource |-> None, id |-> 0]

\* what the data provider will answer a call with: the record, or a rejection
Responses == {"record"} \cup Errors

NoEntry ==
  [status |-> "none", data |-> NoData, error |-> None,
   isFetching |-> FALSE, invalidated |-> FALSE, fn |-> NoFn]

\* a hook that wraps the provider's rejection reason in an error of its own
HookResultWrapped(entry) ==
  [status |-> entry.status, data |-> entry.data,
   error |-> IF entry.error = None THEN None ELSE "Error",
   isFetching |-> entry.isFetching]

\* useOne.ts:18  return queryResponse  (the observer's result, as it is)
HookResult(entry) ==
  [status |-> entry.status, data |-> entry.data, error |-> entry.error,
   isFetching |-> entry.isFetching]

NoResult ==
  [status |-> "none", data |-> NoData, error |-> None, isFetching |-> FALSE]
Pending ==
  [status |-> "pending", data |-> NoData, error |-> None, isFetching |-> TRUE]

-----------------------------------------------------------------------------
(* The query-caching layer *)

\* the observers subscribed to a key: the consumers whose useOne call maps to it
Observers(k) == {c \in Consumers : args[c] # NoArgs /\ KeyOf(args[c]) = k}

\* a mount fetches unless a request is in flight or a valid result is cached
ShouldFetch(entry) ==
  /\ ~entry.isFetching
  /\ entry.status # "success" \/ entry.invalidated

\* the entry while a fetch with query function fn runs
Fetching(entry, fn) ==
  [entry EXCEPT !.status = IF entry.data = NoData THEN "loading" ELSE "success",
                !.error = None, !.isFetching = TRUE, !.fn = fn]

Resolved(entry, payload) ==
  [entry EXCEPT !.status = "success", !.data = payload, !.error = None,
                !.isFetching = FALSE, !.invalidated = FALSE]

\* a failed refetch keeps the data fetched before
Rejected(entry, reason) ==
  [entry EXCEPT !.status = "error", !.error = reason, !.isFetching = FALSE]

\* a getOne call in flight: `by` is the observer (or the client) that started
\* the fetch, `response` what the provider will settle it with, `latest`
\* whether no fetch for the key was started after it
Call(k, fn, by, response) ==
  [key |-> k, fn |-> fn, by |-> by, response |-> response, latest |-> TRUE]

\* every call there can be
Calls ==
  {[Call(KeyOf(a), fn, by, resp) EXCEPT !.latest = l] :
     a \in AllArgs, fn \in {QueryFn(b.resource, b.id) : b \in AllArgs},
     by \in Consumers \cup {Client}, resp \in Responses, l \in BOOLEAN}

CallsOf(k) == {f \in inflight : f.key = k}

\* the calls in flight once a new one has started
Started(call) ==
  {IF f.key = call.key THEN [f EXCEPT !.latest = FALSE] ELSE f : f \in inflight}
    \cup {call}

\* the views after key k's entry became e: its observers re-render
Notify(k, e) ==
  [c \in Consumers |-> IF c \in Observers(k) THEN HookResult(e) ELSE view[c]]

-----------------------------------------------------------------------------
(* Operations *)

TypeOK ==
  /\ mounted \in [Consumers -> BOOLEAN]
  /\ args \in [Consumers -> AllArgs \cup {NoArgs}]
  /\ served \in [Consumers -> BOOLEAN]

QueryInit ==
  /\ mounted = [c \in Consumers |-> FALSE]
  /\ args = [c \in Consumers |-> NoArgs]
  /\ view = [c \in Consumers |-> NoResult]
  /\ cache = [k \in Keys |-> NoEntry]
  /\ inflight = {}
  /\ last = [k \in Keys |-> NoResult]
  /\ served = [c \in Consumers |-> FALSE]

\* a hook that bypasses the cache: every invocation calls getOne
useOneUncached(c, resource, id) ==
  LET k == QueryKey(resource, id)
      fn == QueryFn(resource, id)
      e == Fetching(cache[k], fn)
  IN /\ ~mounted[c] \/ args[c] # Args(resource, id)
     /\ mounted' = [mounted EXCEPT ![c] = TRUE]
     /\ args' = [args EXCEPT ![c] = Args(resource, id)]
     /\ cache' = [cache EXCEPT ![k] = e]
     /\ \E resp \in Responses : inflight' = Started(Call(k, fn, c, resp))
     /\ last' = [last EXCEPT ![k] = Pending]
     /\ served' = [served EXCEPT ![c] = FALSE]
     /\ view' = [d \in Consumers |->
                   IF d = c \/ d \in Observers(k) THEN HookResult(e) ELSE view[d]]
     /\ UNCHANGED <<authVars, layoutVars, promptVars, formVars>>

\* useOne.ts:7-19: component c renders useOne(resource, id) - on mount, or
\* again with other arguments.  useQuery subscribes c to the key's entry and
\* starts the query function when ShouldFetch says so.
useOne(c, resource, id) ==
  LET k == QueryKey(resource, id)
      fn == QueryFn(resource, id)
      fetch == ShouldFetch(cache[k])
      e == IF fetch THEN Fetching(cache[k], fn) ELSE cache[k]
  IN /\ ~mounted[c] \/ args[c] # Args(resource, id)
     /\ mounted' = [mounted EXCEPT ![c] = TRUE]
     /\ args' = [args EXCEPT ![c] = Args(resource, id)]
     /\ cache' = [cache EXCEPT ![k] = e]
     /\ IF fetch
        THEN /\ \E resp \in Responses : inflight' = Started(Call(k, fn, c, resp))
             /\ last' = [last EXCEPT ![k] = Pending]
        ELSE UNCHANGED <<inflight, last>>
     /\ served' = [served EXCEPT ![c] = ~fetch /\ ~e.isFetching]
     /\ view' = [d \in Consumers |->
                   IF d = c \/ d \in Observers(k) THEN HookResult(e) ELSE view[d]]
     /\ UNCHANGED <<authVars, layoutVars, promptVars, formVars>>

\* an unmount that leaves the query observer subscribed
UnmountSubscribed(c) ==
  /\ mounted[c]
  /\ mounted' = [mounted EXCEPT ![c] = FALSE]
  /\ view' = [view EXCEPT ![c] = NoResult]
  /\ served' = [served EXCEPT ![c] = FALSE]
  /\ UNCHANGED <<args, cache, inflight, last>>
  /\ UNCHANGED <<authVars, layoutVars, promptVars, formVars>>

\* the component using the hook unmounts: its observer unsubscribes and it
\* renders nothing any more
Unmount(c) ==
  /\ mounted[c]
  /\ mounted' = [mounted EXCEPT ![c] = FALSE]
  /\ args' = [args EXCEPT ![c] = NoArgs]
  /\ view' = [view EXCEPT ![c] = NoResult]
  /\ served' = [served EXCEPT ![c] = FALSE]
  /\ UNCHANGED <<cache, inflight, last>>
  /\ UNCHANGED <<authVars, layoutVars, promptVars, formVars>>

\* the data provider resolves a getOne call with the record asked for
GetOneResolve(f) ==
  LET e == Resolved(cache[f.key], Payload(f.fn))
  IN /\ f \in inflight
     /\ f.response = "record"
     /\ inflight' = inflight \ {f}
     /\ cache' = [cache EXCEPT ![f.key] = e]
     /\ view' = Notify(f.key, e)
     /\ last' = IF f.latest THEN [last EXCEPT ![f.key] = HookResult(e)] ELSE last
     /\ UNCHANGED <<mounted, args, served>>
     /\ UNCHANGED <<authVars, layoutVars, promptVars, formVars>>

\* the data provider rejects a getOne call with its reason
GetOneReject(f) ==
  LET e == Rejected(cache[f.key], f.response)
  IN /\ f \in inflight
     /\ f.response \in Errors
     /\ inflight' = inflight \ {f}
     /\ cache' = [cache EXCEPT ![f.key] = e]
     /\ view' = Notify(f.key, e)
     /\ last' = IF f.latest THEN [last EXCEPT ![f.key] = HookResult(e)] ELSE last
     /\ UNCHANGED <<mounted, args, served>>
     /\ UNCHANGED <<authVars, layoutVars, promptVars, formVars>>

\* the application invalidates a key: the entry is marked, and refetched with
\* the query function it holds when a component is observing it
InvalidateQueries(k) ==
  LET marked == [cache[k] EXCEPT !.invalidated = TRUE]
      fetch == Observers(k) # {} /\ ~marked.isFetching
      e == IF fetch THEN Fetching(marked, marked.fn) ELSE marked
  IN /\ cache[k].status # "none"
     /\ ~cache[k].invalidated
     /\ cache' = [cache EXCEPT ![k] = e]
     /\ IF fetch
        THEN /\ \E resp \in Responses :
                  inflight' = Started(Call(k, e.fn, Client, resp))
             /\ last' = [last EXCEPT ![k] = Pending]
        ELSE UNCHANGED <<inflight, last>>
     /\ view' = Notify(k, e)
     /\ UNCHANGED <<mounted, args, served>>
     /\ UNCHANGED <<authVars, layoutVars, promptVars, formVars>>

-----------------------------------------------------------------------------
(* The sample authProvider and the Authenticated gate, custom-pages.md *)

Usernames == {"admin", "guest"}
Pages == 1..NumPages

\* custom-pages.md:64-65  checkAuth: () => localStorage.getItem("username")
\*   ? Promise.resolve() : Promise.reject()
checkAuth == IF storage # None THEN "resolved" ELSE "rejected"

NoGate == [state |-> "unmounted", auth |-> None]

AuthInit ==
  /\ storage = None
  /\ loginResult = None
  /\ logoutResult = None
  /\ session = FALSE
  /\ gate = [p \in Pages |-> NoGate]
  /\ shown = [p \in Pages |-> FALSE]

\* a login that lets every username in
loginAnyUser(username) ==
  /\ storage' = username /\ loginResult' = "resolved"
  /\ session' = (session \/ username = "admin")
  /\ UNCHANGED <<logoutResult, gate, shown>>
  /\ UNCHANGED <<queryVars, layoutVars, promptVars, formVars>>

\* custom-pages.md:51-58  login
login(username) ==
  /\ IF username = "admin"
     THEN storage' = username /\ loginResult' = "resolved"
     ELSE storage' = storage /\ loginResult' = "rejected"
  /\ session' = (session \/ username = "admin")
  /\ UNCHANGED <<logoutResult, gate, shown>>
  /\ UNCHANGED <<queryVars, layoutVars, promptVars, formVars>>

\* custom-pages.md:59-62  logout
logout ==
  /\ storage' = None
  /\ logoutResult' = "resolved"
  /\ session' = FALSE
  /\ UNCHANGED <<loginResult, gate, shown>>
  /\ UNCHANGED <<queryVars, layoutVars, promptVars, formVars>>

\* custom-pages.md:22-29  the page registered as a public custom page
PublicCustomPage(p) ==
  /\ gate[p].state = "unmounted"
  /\ shown' = [shown EXCEPT ![p] = TRUE]
  /\ UNCHANGED <<storage, loginResult, logoutResult, session, gate>>
  /\ UNCHANGED <<queryVars, layoutVars, promptVars, formVars>>

\* custom-pages.md:69-75  the route renders <Authenticated><CustomPage/>
\* </Authenticated>: the wrapper calls checkAuth and renders nothing yet
AuthenticatedCustomPage(p) ==
  /\ gate[p].state = "unmounted"
  /\ gate' = [gate EXCEPT ![p] = [state |-> "checking", auth |-> checkAuth]]
  /\ UNCHANGED <<storage, loginResult, logoutResult, session, shown>>
  /\ UNCHANGED <<queryVars, layoutVars, promptVars, formVars>>

\* the wrapper's checkAuth promise settles: the children are rendered when it
\* resolved; a rejection means unauthenticated and they are not
Authenticated(p) ==
  /\ gate[p].state = "checking"
  /\ IF gate[p].auth = "resolved"
     THEN /\ gate' = [gate EXCEPT ![p].state = "granted"]
          /\ shown' = [shown EXCEPT ![p] = TRUE]
     ELSE /\ gate' = [gate EXCEPT ![p].state = "denied"]
          /\ shown' = [shown EXCEPT ![p] = FALSE]
  /\ UNCHANGED <<storage, loginResult, logoutResult, session>>
  /\ UNCHANGED <<queryVars, layoutVars, promptVars, formVars>>

\* the user leaves the page: the wrapper and its page unmount
LeavePage(p) ==
  /\ gate[p].state \in {"granted", "denied"}
  /\ gate' = [gate EXCEPT ![p] = NoGate]
  /\ shown' = [shown EXCEPT ![p] = FALSE]
  /\ UNCHANGED <<storage, loginResult, logoutResult, session>>
  /\ UNCHANGED <<queryVars, layoutVars, promptVars, formVars>>

-----------------------------------------------------------------------------
(* The Layout sidebar, part_000 *)

ResourceNames == {"posts", "users", "logout"}

\* registries: resource names, each at most once
Registries ==
  {r \in UNION {[1..n -> ResourceNames] : n \in 0..NumResources} :
     \A i, j \in DOMAIN r : i # j => r[i] # r[j]}

\* part_000:56, 62, 71  the keys of the menu items
DashboardKey == <<"dashboard">>
\* a key that is the bare resource name
ResourceKeyBare(item) == <<item>>
ResourceKey(item) == <<"resource-", item>>
LogoutKey == <<"logout">>

RootPath == <<"/">>
LoginPath == <<"/login">>
ResourcePath(item) == <<"/resources/", item>>

\* a menu that lists the resources after the Logout item
MenuItemsAppended(registry) ==
  <<[key |-> DashboardKey, to |-> RootPath]>>
    \o <<[key |-> LogoutKey, to |-> <<>>]>>
    \o [i \in DOMAIN registry |->
          [key |-> ResourceKey(registry[i]), to |-> ResourcePath(registry[i])]]

\* part_000:56-73  the menu: Dashboard, one item per resource, Logout
MenuItems(registry) ==
  <<[key |-> DashboardKey, to |-> RootPath]>>
    \o [i \in DOMAIN registry |->
          [key |-> ResourceKey(registry[i]), to |-> ResourcePath(registry[i])]]
    \o <<[key |-> LogoutKey, to |-> <<>>]>>

Range(seq) == {seq[i] : i \in DOMAIN seq}

\* every item a menu can hold
AllMenuItems == UNION {Range(MenuItems(r)) : r \in Registries}

NoneSettled == [ok |-> 0, err |-> 0]

LayoutInit ==
  /\ resources \in Registries
  /\ location = RootPath
  /\ logouts = 0
  /\ pushed = 0
  /\ settled = NoneSettled

\* the item's <Link to=...> navigates; the Logout item has none
Linked(item) == IF item.to = <<>> THEN location ELSE item.to

\* a handler that navigates without waiting for logout to resolve
menuOnClickEager(item) ==
  /\ item \in Range(MenuItems(resources))
  /\ location # LoginPath
  /\ IF item.key = LogoutKey
     THEN /\ logouts + settled.ok + settled.err < MaxLogouts
          /\ logouts' = logouts + 1
          /\ pushed' = pushed + 1
          /\ location' = LoginPath
     ELSE /\ location' = Linked(item)
          /\ UNCHANGED <<logouts, pushed>>
  /\ UNCHANGED <<resources, settled>>
  /\ UNCHANGED <<queryVars, authVars, promptVars, formVars>>

\* part_000:23-28  menuOnClick({ key }): a click on an item of the menu, while
\* the Layout is on screen
menuOnClick(item) ==
  /\ item \in Range(MenuItems(resources))
  /\ location # LoginPath
  /\ IF item.key = LogoutKey
     THEN /\ logouts + settled.ok + settled.err < MaxLogouts
          /\ logouts' = logouts + 1
     ELSE UNCHANGED logouts
  /\ location' = Linked(item)
  /\ UNCHANGED <<resources, pushed, settled>>
  /\ UNCHANGED <<queryVars, authVars, promptVars, formVars>>

\* part_000:26  logout({}) resolved: .then(() => history.push("/login"))
LogoutResolved ==
  /\ logouts > 0
  /\ logouts' = logouts - 1
  /\ settled' = [settled EXCEPT !.ok = @ + 1]
  /\ pushed' = pushed + 1
  /\ location' = LoginPath
  /\ UNCHANGED resources
  /\ UNCHANGED <<queryVars, authVars, promptVars, formVars>>

\* part_000:26  logout({}) rejected: no handler is attached for that
LogoutRejected ==
  /\ logouts > 0
  /\ logouts' = logouts - 1
  /\ settled' = [settled EXCEPT !.err = @ + 1]
  /\ UNCHANGED <<resources, location, pushed>>
  /\ UNCHANGED <<queryVars, authVars, promptVars, formVars>>

\* the user signs in again on the login page and is back in the Layout
SignIn ==
  /\ location = LoginPath
  /\ location' = RootPath
  /\ UNCHANGED <<resources, logouts, pushed, settled>>
  /\ UNCHANGED <<queryVars, authVars, promptVars, formVars>>

-----------------------------------------------------------------------------
(* The Next.js Prompt, router-provider.md:284-308 *)

Routes == {"/", "/posts", "/posts/create"}

NoChange ==
  [mounted |-> FALSE, whenAt |-> FALSE, dialogs |-> 0, warnCalls |-> 0,
   errors |-> 0, aborted |-> FALSE]

\* a handler that asks whatever `when` is
routeChangeStartUngated(w, allowTransition) ==
  [dialog |-> TRUE, setWarn |-> allowTransition, abort |-> ~allowTransition]

\* a handler that lets the change through when the user declines
routeChangeStartLenient(w, allowTransition) ==
  IF w
  THEN [dialog |-> TRUE, setWarn |-> allowTransition, abort |-> FALSE]
  ELSE [dialog |-> FALSE, setWarn |-> FALSE, abort |-> FALSE]

\* router-provider.md:292-302  routeChangeStart, with `when` as its closure
\* holds it and the user's answer to window.confirm
routeChangeStart(w, allowTransition) ==
  IF w
  THEN [dialog |-> TRUE, setWarn |-> allowTransition, abort |-> ~allowTransition]
  ELSE [dialog |-> FALSE, setWarn |-> FALSE, abort |-> FALSE]

\* the handlers router.events runs: in order, up to the first that throws
RECURSIVE Emit(_, _)
Emit(hs, allowTransition) ==
  IF hs = <<>> THEN <<>>
  ELSE LET r == routeChangeStart(Head(hs), allowTransition)
       IN IF r.abort THEN <<r>> ELSE <<r>> \o Emit(Tail(hs), allowTransition)

Count(rs, f(_)) == Cardinality({i \in DOMAIN rs : f(rs[i])})
IsDialog(r) == r.dialog
IsSetWarn(r) == r.setWarn
IsAbort(r) == r.abort

\* router.events.off: the handler the effect registered is removed
RECURSIVE Off(_, _)
Off(hs, h) ==
  IF hs = <<>> THEN <<>>
  ELSE IF Head(hs) = h THEN Tail(hs) ELSE <<Head(hs)>> \o Off(Tail(hs), h)

PromptInit ==
  /\ when \in BOOLEAN
  /\ hasSetter \in BOOLEAN
  /\ prompt = FALSE
  /\ handlers = <<>>
  /\ route = "/"
  /\ changes = 0
  /\ lastChange = NoChange

\* router-provider.md:291-306  the effect: register a handler closing over
\* `when`
PromptMount ==
  /\ ~prompt
  /\ prompt' = TRUE
  /\ handlers' = Append(handlers, when)
  /\ UNCHANGED <<when, hasSetter, route, changes, lastChange>>
  /\ UNCHANGED <<queryVars, authVars, layoutVars, formVars>>

\* router-provider.md:305  the effect's cleanup on unmount
PromptUnmount ==
  /\ prompt
  /\ prompt' = FALSE
  /\ handlers' = Off(handlers, when)
  /\ UNCHANGED <<when, hasSetter, route, changes, lastChange>>
  /\ UNCHANGED <<queryVars, authVars, layoutVars, formVars>>

\* an effect that never runs again: deps [] in place of [when]
RenderStale(w) ==
  /\ w # when
  /\ when' = w
  /\ UNCHANGED <<handlers, hasSetter, prompt, route, changes, lastChange>>
  /\ UNCHANGED <<queryVars, authVars, layoutVars, formVars>>

\* router-provider.md:291-306  the parent renders the Prompt with another
\* `when`: the effect's cleanup removes the old handler, the effect registers
\* one closing over the new value (deps [when])
Render(w) ==
  /\ w # when
  /\ when' = w
  /\ handlers' = IF prompt THEN Append(Off(handlers, when), w) ELSE handlers
  /\ UNCHANGED <<hasSetter, prompt, route, changes, lastChange>>
  /\ UNCHANGED <<queryVars, authVars, layoutVars, formVars>>

\* the router starts a change to `target` and emits routeChangeStart; the
\* user answers a confirm dialog with allowTransition
RouteChange(target, allowTransition) ==
  LET rs == Emit(handlers, allowTransition)
      aborted == Count(rs, IsAbort) > 0
      warned == hasSetter /\ Count(rs, IsSetWarn) > 0
  IN /\ changes < MaxChanges
     /\ target # route
     /\ changes' = changes + 1
     /\ lastChange' =
          [mounted |-> prompt, whenAt |-> when,
           dialogs |-> Count(rs, IsDialog),
           warnCalls |-> IF hasSetter THEN Count(rs, IsSetWarn) ELSE 0,
           errors |-> Count(rs, IsAbort), aborted |-> aborted]
     /\ route' = IF aborted THEN route ELSE target
     \* setWarnWhen?.(false): the parent renders the Prompt with when = false
     /\ when' = IF warned THEN FALSE ELSE when
     /\ handlers' = IF warned /\ prompt /\ when
                    THEN Append(Off(handlers, when), FALSE)
                    ELSE handlers
     /\ UNCHANGED <<hasSetter, prompt>>
     /\ UNCHANGED <<queryVars, authVars, layoutVars, formVars>>

-----------------------------------------------------------------------------
(* The title-uniqueness rule of PostCreate, custom-form-validation.md *)

Titles == {"", "a", "b"}

\* the titles the posts-unique-check endpoint reports as not available
TakenTitles == {"b"}

Runs == 1..MaxRuns

\* custom-form-validation.md:94-96
UniqueError == "'title' is must be unique"

NoResponse == [kind |-> "none", isAvailable |-> FALSE]
NoRun ==
  [state |-> "idle", value |-> "", asked |-> FALSE, query |-> [title |-> ""],
   response |-> NoResponse, error |-> None]

\* custom-form-validation.md:36-42  what the request for `query` comes back
\* with: the endpoint's answer, a response without data, or a failure
Response(kind, query) ==
  [kind |-> kind,
   isAvailable |-> kind = "data" /\ query.title \notin TakenTitles]

ResponseKinds == {"data", "nodata", "failed"}

\* custom-form-validation.md:90  const { data } = await refetch(): the
\* result carries data only when the request came back with some
RefetchData(response) ==
  [present |-> response.kind = "data", isAvailable |-> response.isAvailable]

\* a rule that lets a title pass when there is no data
VerdictLenient(data) ==
  IF ~data.present \/ data.isAvailable
  THEN [state |-> "resolved", error |-> None]
  ELSE [state |-> "rejected", error |-> UniqueError]

\* custom-form-validation.md:91-96  if (data && data.data.isAvailable)
\* resolve, else reject with the Error
Verdict(data) ==
  IF data.present /\ data.isAvailable
  THEN [state |-> "resolved", error |-> None]
  ELSE [state |-> "rejected", error |-> UniqueError]

\* custom-form-validation.md:57, 103  useState(""), an empty field
FormInit ==
  /\ value = ""
  /\ title = ""
  /\ runs = [r \in Runs |-> NoRun]
  /\ started = 0

\* custom-form-validation.md:103  onChange: the field takes the new value
\* and setTitle(event.target.value) queues the state update
onChange(v) ==
  /\ v # value
  /\ value' = v
  /\ UNCHANGED <<title, runs, started>>
  /\ UNCHANGED <<queryVars, authVars, layoutVars, promptVars>>

\* custom-form-validation.md:52-74  PostCreate renders again with the queued
\* state: useCustom is called with query { title } of this render
PostCreate ==
  /\ title # value
  /\ title' = value
  /\ UNCHANGED <<value, runs, started>>
  /\ UNCHANGED <<queryVars, authVars, layoutVars, promptVars>>

\* custom-form-validation.md:88-90  the rule's validator runs for the field's
\* value: an empty value returns at once, any other awaits refetch(), whose
\* request carries the query of the latest render
validator(r) ==
  /\ r = started + 1
  /\ started' = r
  /\ runs' = [runs EXCEPT ![r] =
       IF value = ""
       THEN [NoRun EXCEPT !.state = "resolved"]
       ELSE [NoRun EXCEPT !.state = "awaiting", !.value = value,
                          !.asked = TRUE, !.query = [title |-> title]]]
  /\ UNCHANGED <<value, title>>
  /\ UNCHANGED <<queryVars, authVars, layoutVars, promptVars>>

\* custom-form-validation.md:90-96  refetch() settles and the validator
\* resolves or rejects on its data
refetch(r, kind) ==
  /\ runs[r].state = "awaiting"
  /\ LET response == Response(kind, runs[r].query)
         verdict == Verdict(RefetchData(response))
     IN runs' = [runs EXCEPT ![r].state = verdict.state,
                             ![r].error = verdict.error,
                             ![r].response = response]
  /\ UNCHANGED <<value, title, started>>
  /\ UNCHANGED <<queryVars, authVars, layoutVars, promptVars>>

-----------------------------------------------------------------------------
(* Specifications *)

\* the parts a specification leaves alone stay as they start
AuthOff == AuthInit
LayoutOff == LayoutInit /\ resources = <<>>
PromptOff == PromptInit /\ ~when /\ ~hasSetter
FormOff == FormInit

Init == QueryInit /\ AuthOff /\ LayoutOff /\ PromptOff /\ FormOff

Settle(k) ==
  \E f \in CallsOf(k) : GetOneResolve(f) \/ GetOneReject(f)

Next ==
  \/ \E c \in Consumers, a \in AllArgs : useOne(c, a.resource, a.id)
  \/ \E c \in Consumers : Unmount(c)
  \/ \E f \in Calls : GetOneResolve(f)
  \/ \E f \in Calls : GetOneReject(f)
  \/ \E k \in Keys : InvalidateQueries(k)

Spec == Init /\ [][Next]_vars

\* every call the data provider accepted settles
FairSpec == Spec /\ \A k \in Keys : WF_vars(Settle(k))

AuthNext ==
  \/ \E u \in Usernames : login(u)
  \/ logout
  \/ \E p \in Pages : AuthenticatedCustomPage(p)
  \/ \E p \in Pages : Authenticated(p)
  \/ \E p \in Pages : LeavePage(p)

InitAuth == AuthInit /\ QueryInit /\ LayoutOff /\ PromptOff /\ FormOff

SpecAuth == InitAuth /\ [][AuthNext]_vars

LayoutNext ==
  \/ \E item \in AllMenuItems : menuOnClick(item)
  \/ LogoutResolved
  \/ LogoutRejected
  \/ SignIn

InitLayout == LayoutInit /\ QueryInit /\ AuthOff /\ PromptOff /\ FormOff

SpecLayout == InitLayout /\ [][LayoutNext]_vars

PromptNext ==
  \/ PromptMount
  \/ PromptUnmount
  \/ \E w \in BOOLEAN : Render(w)
  \/ \E target \in Routes, allowTransition \in BOOLEAN :
       RouteChange(target, allowTransition)

InitPrompt == PromptInit /\ QueryInit /\ AuthOff /\ LayoutOff /\ FormOff

SpecPrompt == InitPrompt /\ [][PromptNext]_vars

FormNext ==
  \/ \E v \in Titles : onChange(v)
  \/ PostCreate
  \/ \E r \in Runs : validator(r)
  \/ \E r \in Runs, kind \in ResponseKinds : refetch(r, kind)

InitForm == FormInit /\ QueryInit /\ AuthOff /\ LayoutOff /\ PromptOff

SpecForm == InitForm /\ [][FormNext]_vars

-----------------------------------------------------------------------------
(* Claims about useOne *)

Mounts(c, a) == mounted'[c] /\ args'[c] = a /\ (~mounted[c] \/ args[c] # a)
Uses(c, a) == mounted[c] /\ args[c] = a

\* C1: consumers of one (resource, id) share one cache entry and one getOne
\* call: no key ever has two calls in flight, a key is fetching exactly while
\* one call for it is in flight, and mounted consumers of the same
\* (resource, id) render the same result.
C1_OneFetchPerKey ==
  /\ \A k \in Keys : Cardinality(CallsOf(k)) <= 1
  /\ \A k \in Keys : cache[k].isFetching <=> CallsOf(k) # {}
  /\ \A c, d \in Consumers :
       mounted[c] /\ mounted[d] /\ args[c] = args[d] => view[c] = view[d]

C1_Witness ==
  \E c, d \in Consumers :
    /\ c # d /\ mounted[c] /\ mounted[d] /\ args[c] = args[d]
    /\ view[c].status = "loading" /\ view[d].status = "loading"
    /\ Cardinality(CallsOf(KeyOf(args[c]))) = 1

\* C2: a useOne call with another id than one the resource has a cached
\* state for (pending, success or failure) uses a key distinct from that
\* id's key and starts a getOne call for the new id.
C2_NewIdNewFetch ==
  [][\A c \in Consumers, a \in AllArgs, b \in AllArgs :
       /\ Mounts(c, a)
       /\ b.resource = a.resource /\ b.id # a.id
       /\ cache[KeyOf(b)].fn = QueryFn(b.resource, b.id)
       /\ \A f \in inflight : f.fn # QueryFn(a.resource, a.id)
       /\ cache[KeyOf(a)].fn # QueryFn(a.resource, a.id)
       => /\ KeyOf(a) # KeyOf(b)
          /\ \E f \in inflight' : f.fn = QueryFn(a.resource, a.id)]_vars

\* C3: when getOne rejects with reason E, every consumer of that
\* (resource, id) shows a failure whose error is E itself and not a success,
\* and the rejection starts no further provider call.
C3_RejectionSurfaces ==
  [][\A f \in inflight :
       GetOneReject(f) =>
         /\ \A c \in Consumers :
              mounted[c] /\ QueryFn(args[c].resource, args[c].id) = f.fn
              => /\ view'[c].status = "error"
                 /\ view'[c].error = f.response
                 /\ view'[c].error \in Errors
         /\ inflight' = inflight \ {f}]_vars

C3_Witness ==
  \E c \in Consumers :
    /\ mounted[c] /\ view[c].status = "error" /\ view[c].error = "E2"
    /\ cache[KeyOf(args[c])].fn = QueryFn(args[c].resource, args[c].id)
    /\ CallsOf(KeyOf(args[c])) = {}

C5_ServedFromCache ==
  [][\A c \in Consumers, a \in AllArgs :
       /\ Mounts(c, a)
       /\ cache[KeyOf(a)].status = "success"
       /\ cache[KeyOf(a)].data = Payload(Args(a.resource, a.id))
       /\ ~cache[KeyOf(a)].invalidated
       => /\ inflight' = inflight
          /\ view'[c].status = "success"
          /\ view'[c].data = cache[KeyOf(a)].data]_vars

C5_Witness ==
  \E c \in Consumers :
    /\ mounted[c] /\ served[c]
    /\ view[c].status = "success" /\ view[c].data = Payload(args[c])

\* C6: once every fetch started for a key has settled, the key's entry, and
\* what its consumers show, is the outcome of the fetch started last.
C6_LatestFetchWins ==
  \A k \in Keys :
    CallsOf(k) = {} /\ last[k] # NoResult
    => /\ HookResult(cache[k]) = last[k]
       /\ \A c \in Consumers : mounted[c] /\ KeyOf(args[c]) = k => view[c] = last[k]

\* a failure that still carries data: a fetch succeeded and a later one failed
C6_Witness ==
  \E k \in Keys, c \in Consumers :
    /\ CallsOf(k) = {} /\ mounted[c] /\ KeyOf(args[c]) = k
    /\ view[c].status = "error" /\ view[c].data # NoData

\* C7: a consumer that is unmounted sees no update: whatever settles while
\* it stays unmounted leaves what it shows unchanged.
C7_NoUpdateAfterUnmount ==
  [][\A c \in Consumers : ~mounted[c] /\ ~mounted'[c] => view'[c] = view[c]]_vars

\* the consumer that started the fetch has unmounted, the call is in flight
C7_Witness ==
  \E c \in Consumers, f \in inflight : f.by = c /\ ~mounted[c]

-----------------------------------------------------------------------------
(* Claims about the auth gate, the Layout and the Prompt *)

\* C8: the protected page is rendered only behind a checkAuth that resolved;
\* while the check is pending or after it rejected the page is not rendered.
C8_RejectedMeansUnauthenticated ==
  \A p \in Pages :
    /\ shown[p] => gate[p].state = "granted" /\ gate[p].auth = "resolved"
    /\ gate[p].auth = "rejected" => ~shown[p]

\* one page was let in, another was turned away after a logout
C8_Witness ==
  \E p, q \in Pages :
    /\ shown[p] /\ gate[p].auth = "resolved"
    /\ gate[q].state = "denied" /\ gate[q].auth = "rejected" /\ ~shown[q]

\* C9: the click handler navigates to /login once per logout call that
\* resolved and not otherwise: never for a call that is pending or rejected.
C9_PushAfterLogoutResolved ==
  /\ pushed = settled.ok
  /\ location = LoginPath => settled.ok > 0

\* a logout was rejected, another is pending, and nothing was pushed
C9_Witness ==
  settled.err > 0 /\ logouts > 0 /\ pushed = 0 /\ location # LoginPath

\* C10: for a mounted Prompt, a routeChangeStart shows the confirm dialog
\* exactly when `when` is true; with `when` false there is no dialog, no
\* setWarnWhen call, no routeChangeError and no abort.
C10_PromptGatedByWhen ==
  changes > 0 /\ lastChange.mounted =>
    /\ lastChange.dialogs > 0 <=> lastChange.whenAt
    /\ lastChange.dialogs <= 1
    /\ ~lastChange.whenAt =>
         /\ lastChange.warnCalls = 0
         /\ lastChange.errors = 0
         /\ ~lastChange.aborted

\* after a change that asked, `when` is false and the next change did not ask
C10_Witness ==
  /\ changes > 1 /\ lastChange.mounted
  /\ ~lastChange.whenAt /\ lastChange.dialogs = 0 /\ ~lastChange.aborted
  /\ handlers = <<FALSE>>

\* C12: checkAuth resolves exactly when "admin" logged in with no logout
\* since; a login with another username rejects and leaves the stored state
\* as it was; logout resolves and leaves the state unauthenticated, also when
\* nobody was logged in.
C12_CheckAuthIffAdminSession ==
  /\ [](checkAuth = "resolved" <=> session)
  /\ [][/\ \A u \in Usernames \ {"admin"} :
            login(u) => (loginResult' = "rejected" /\ storage' = storage)
        /\ login("admin") => (loginResult' = "resolved" /\ storage' # None)
        /\ logout => (/\ logoutResult' = "resolved"
                      /\ storage' = None
                      /\ checkAuth' = "rejected")]_vars

\* "admin" is logged in, a logout came before, and a later login of another
\* user was rejected without ending the session
C12_Witness ==
  /\ session /\ checkAuth = "resolved"
  /\ logoutResult = "resolved" /\ loginResult = "rejected"

\* C13: with `when` true at routeChangeStart of a mounted Prompt: when the
\* user confirms, setWarnWhen(false) is called (if the prop is given) and the
\* change goes through; when the user declines, one routeChangeError is
\* emitted, the handler throws so that the change is aborted, setWarnWhen is
\* not called and `when` stays true.
C13_ConfirmOrAbort ==
  [][\A target \in Routes, allowTransition \in BOOLEAN :
       RouteChange(target, allowTransition) /\ prompt /\ when =>
         /\ lastChange'.dialogs = 1
         /\ IF allowTransition
            THEN /\ lastChange'.warnCalls = (IF hasSetter THEN 1 ELSE 0)
                 /\ hasSetter => ~when'
                 /\ lastChange'.errors = 0
                 /\ ~lastChange'.aborted
                 /\ route' = target
            ELSE /\ lastChange'.errors = 1
                 /\ lastChange'.aborted
                 /\ route' = route
                 /\ lastChange'.warnCalls = 0
                 /\ when']_vars

\* a change was confirmed and went through, a later one was declined and
\* aborted with the warn flag still set
C13_Witness ==
  /\ changes > 1 /\ hasSetter /\ prompt /\ when /\ route # "/"
  /\ lastChange.mounted /\ lastChange.whenAt
  /\ lastChange.aborted /\ lastChange.errors = 1 /\ lastChange.warnCalls = 0

\* C18: at most one routeChangeStart handler of the Prompt is registered at
\* any time; while the Prompt is mounted it is the one closing over the
\* current `when`; after unmount none is registered, and a route change with
\* the Prompt unmounted shows no dialog.
C18_OneCurrentHandler ==
  /\ Len(handlers) <= 1
  /\ prompt => handlers = <<when>>
  /\ ~prompt => handlers = <<>>
  /\ changes > 0 /\ ~lastChange.mounted =>
       /\ lastChange.dialogs = 0
       /\ ~lastChange.aborted

\* the mounted Prompt asked at a route change that the user declined, `when`
\* changed after that, and the Prompt was unmounted: no handler is left
C18_Witness ==
  /\ ~prompt /\ handlers = <<>> /\ ~when
  /\ lastChange.mounted /\ lastChange.whenAt
  /\ lastChange.dialogs = 1 /\ lastChange.aborted

\* C14: the menu holds the Dashboard item, then one item per entry of the
\* registry in registry order, each with key "resource-<name>" and link
\* "/resources/<name>", then the Logout item; an empty registry gives the
\* Dashboard and Logout items only.
C14_MenuFromRegistry ==
  LET menu == MenuItems(resources)
      n == Len(resources)
  IN /\ Len(menu) = n + 2
     /\ menu[1] = [key |-> <<"dashboard">>, to |-> <<"/">>]
     /\ menu[n + 2].key = <<"logout">>
     /\ \A i \in 1..n :
          /\ menu[i + 1].key = <<"resource-", resources[i]>>
          /\ menu[i + 1].to = <<"/resources/", resources[i]>>
     /\ resources = <<>> =>
          {menu[i].key : i \in DOMAIN menu} = {<<"dashboard">>, <<"logout">>}

\* a registry of two resources whose second item was clicked
C14_Witness ==
  /\ Len(resources) = 2
  /\ location = MenuItems(resources)[3].to
  /\ location = <<"/resources/", resources[2]>>

\* C17: only the Logout item's key is "logout": a click on the Dashboard
\* item or on a resource item, also of a resource named "logout", calls
\* neither logout nor history.push and leaves the auth state as it is; a
\* click on the Logout item calls logout.
C17_OnlyLogoutKeyLogsOut ==
  /\ [](\A name \in ResourceNames : ResourceKey(name) # <<"logout">>)
  /\ [][\A item \in AllMenuItems :
          menuOnClick(item) =>
            IF \/ item = [key |-> DashboardKey, to |-> RootPath]
               \/ \E name \in Range(resources) :
                    item = [key |-> ResourceKey(name),
                            to |-> ResourcePath(name)]
            THEN UNCHANGED <<logouts, pushed, settled, authVars>>
            ELSE /\ item.key = <<"logout">>
                 /\ logouts' = logouts + 1]_vars

\* the item of a resource named "logout" was clicked: the router is on its
\* page and no logout was ever called
C17_Witness ==
  /\ location = ResourcePath("logout")
  /\ logouts = 0 /\ pushed = 0 /\ settled = NoneSettled

\* C15: a mounted useOne(resource, id) consumer that shows success shows the
\* payload getOne returned for that (resource, id), never the payload
\* fetched for another id of the resource.
C15_SuccessIsOwnRecord ==
  \A c \in Consumers :
    mounted[c] /\ view[c].status = "success"
    => view[c].data = Payload(Args(args[c].resource, args[c].id))

-----------------------------------------------------------------------------
(* Claims about the title-uniqueness rule *)

\* C11: a validator run for the empty value resolves without a request; a
\* run for any other value makes a request and resolves exactly when the
\* response has data with isAvailable true; when isAvailable is false, when
\* there is no data and when the request failed it rejects with the error
\* "'title' is must be unique".
C11_VerdictFollowsResponse ==
  \A r \in Runs :
    /\ runs[r].state = "awaiting" => runs[r].asked /\ runs[r].value # ""
    /\ runs[r].state \in {"resolved", "rejected"} =>
         IF runs[r].value = ""
         THEN runs[r].state = "resolved" /\ ~runs[r].asked
         ELSE /\ runs[r].asked
              /\ runs[r].state = "resolved" <=>
                   (runs[r].response.kind = "data"
                      /\ runs[r].response.isAvailable)
              /\ runs[r].state = "rejected" =>
                   runs[r].error = "'title' is must be unique"
              /\ runs[r].response.kind \in {"nodata", "failed"} =>
                   runs[r].state = "rejected"

\* one run was accepted on an available title, another was rejected on a
\* failed request
C11_Witness ==
  \E r, q \in Runs :
    /\ runs[r].state = "resolved" /\ runs[r].asked
    /\ runs[r].response.isAvailable
    /\ runs[q].state = "rejected" /\ runs[q].response.kind = "failed"
    /\ runs[q].error = UniqueError

\* C16: the request a validator run makes for a value v carries the query
\* title = v, also when the run comes before the render that takes up
\* setTitle(v).
C16_RequestCarriesValue ==
  \A r \in Runs : runs[r].asked => runs[r].query.title = runs[r].value

====
